---- MODULE Spec2Model ----
(***************************************************************************)
(* Model of src/src/sdk.ts (SorobanDomainsSDK): the static node derivation *)
(* parseDomain and the four asynchronous operations searchDomain,          *)
(* getDomainData, setDomainData and removeDomainData, each split at its    *)
(* two await points (rpc.getAccount, rpc.simulateTransaction).             *)
(*                                                                         *)
(* Conventions.  A JavaScript string that the code computes with (domain   *)
(* names, hex and decimal renderings) is a sequence of character codes;    *)
(* a string that the code only passes on or compares with a literal        *)
(* (symbols, messages, identifiers) is a TLA+ string.  An optional value   *)
(* is a sequence: << >> is undefined, <<v>> is the value v.                *)
(***************************************************************************)
EXTENDS Integers, Sequences, FiniteSets, TLC

VARIABLES
  global,       \* this.global: the configuration given to the constructor
  calls,        \* the asynchronous calls on the instance: call id -> frame
  parseArgs,    \* the arguments of a static parseDomain call
  parseResult   \* << >> until parseDomain returned, then <<its result>>

vars == <<global, calls, parseArgs, parseResult>>

(***************************************************************************)
(* Bounds of the model.                                                    *)
(***************************************************************************)
MaxLen == 2      \* longest domain / sub-domain string drawn as an input
MaxSeq == 1      \* largest account sequence number the ledger reports
MaxCalls == 2    \* calls in flight together in the concurrent specification

Alphabet == {97, 98}   \* the characters "a", "b" that input strings are made of

Strings(n) == UNION {[1..k -> Alphabet] : k \in 0..n}

Some(v) == <<v>>
None == << >>
IsSome(o) == o # None

(***************************************************************************)
(* JavaScript truthiness of an optional string: undefined and the empty    *)
(* string are falsy.  TruthyString is the test of `params.subDomain`       *)
(* (lines 20 and 50), TruthyId that of `this.global.vaultsContractId` and  *)
(* `this.global.valuesDatabaseContractId` (lines 37, 102, 139, 200).       *)
(***************************************************************************)
TruthyString(o) == IsSome(o) /\ o[1] # << >>
TruthyId(o) == IsSome(o) /\ o[1] # ""

(***************************************************************************)
(* js-sha3.  A Hasher accumulates the bytes of its update() calls; digest  *)
(* hashes what was accumulated.  The permutation itself is a library       *)
(* primitive: Keccak256 stands in for it with a polynomial hash over a     *)
(* prime field, two bytes wide, which keeps what the code relies on: the   *)
(* digest is a function of the byte sequence fed, order included.          *)
(***************************************************************************)
RECURSIVE Absorb(_, _)
Absorb(state, bytes) ==
  IF bytes = << >> THEN state
  ELSE Absorb((state * 257 + Head(bytes) + 1) % 65521, Tail(bytes))

Keccak256(bytes) ==
  LET s == Absorb(Len(bytes) + 7, bytes)
  IN  <<s \div 256, s % 256>>

HasherCreate == << >>
HasherUpdate(hasher, bytes) == hasher \o bytes
HasherDigest(hasher) == Keccak256(hasher)

HexDigit(n) == IF n < 10 THEN 48 + n ELSE 87 + n

RECURSIVE ToHex(_)
ToHex(bytes) ==
  IF bytes = << >> THEN << >>
  ELSE <<HexDigit(Head(bytes) \div 16), HexDigit(Head(bytes) % 16)>> \o ToHex(Tail(bytes))

HasherHex(hasher) == ToHex(HasherDigest(hasher))

Xlm == <<120, 108, 109>>    \* the literal 'xlm'

(***************************************************************************)
(* parseDomain, lines 14-30.                                               *)
(***************************************************************************)
ParseRecordHasher(domain) ==
  HasherUpdate(HasherUpdate(HasherCreate,
                            HasherDigest(HasherUpdate(HasherCreate, Xlm))),
               HasherDigest(HasherUpdate(HasherCreate, domain)))

\* The two updates of the root hasher in the other order.
parseDomain_SwapsUpdates(domain, subDomain) ==
  LET record ==
        HasherUpdate(HasherUpdate(HasherCreate,
                                  HasherDigest(HasherUpdate(HasherCreate, domain))),
                     HasherDigest(HasherUpdate(HasherCreate, Xlm)))
  IN  IF TruthyString(subDomain)
      THEN LET subRecord ==
                 HasherUpdate(HasherUpdate(HasherCreate,
                     HasherDigest(HasherUpdate(HasherCreate, HasherDigest(record)))),
                     HasherDigest(HasherUpdate(HasherCreate, subDomain[1])))
           IN  HasherHex(subRecord)
      ELSE HasherHex(record)

parseDomain(domain, subDomain) ==
  LET record == ParseRecordHasher(domain)
  IN  IF TruthyString(subDomain)
      THEN LET subRecord ==
                 HasherUpdate(HasherUpdate(HasherCreate,
                     HasherDigest(HasherUpdate(HasherCreate, HasherDigest(record)))),
                     HasherDigest(HasherUpdate(HasherCreate, subDomain[1])))
           IN  HasherHex(subRecord)
      ELSE HasherHex(record)

(***************************************************************************)
(* Buffer.from(text, 'hex'): two hex digits a byte, stopping at the first  *)
(* pair that is not hex; a trailing single digit is dropped.               *)
(***************************************************************************)
IsHexChar(c) == c \in 48..57 \/ c \in 97..102 \/ c \in 65..70
HexValue(c) == IF c \in 48..57 THEN c - 48 ELSE IF c \in 97..102 THEN c - 87 ELSE c - 55

RECURSIVE BufferFromHex(_)
BufferFromHex(text) ==
  IF Len(text) < 2 \/ ~IsHexChar(text[1]) \/ ~IsHexChar(text[2]) THEN << >>
  ELSE <<HexValue(text[1]) * 16 + HexValue(text[2])>> \o BufferFromHex(SubSeq(text, 3, Len(text)))

(***************************************************************************)
(* BigInt.prototype.toString() of a non-negative integer: its decimal      *)
(* digits, most significant first.                                         *)
(***************************************************************************)
RECURSIVE BigIntToString(_)
BigIntToString(n) ==
  IF n < 10 THEN <<48 + n>> ELSE BigIntToString(n \div 10) \o <<48 + (n % 10)>>

(***************************************************************************)
(* xdr.ScVal values, by constructor.                                       *)
(***************************************************************************)
scvVoid == [type |-> "scvVoid", value |-> None]
scvSymbol(s) == [type |-> "scvSymbol", value |-> s]
scvString(s) == [type |-> "scvString", value |-> s]
scvBytes(b) == [type |-> "scvBytes", value |-> b]
scvVec(items) == [type |-> "scvVec", value |-> items]
scvMap(entries) == [type |-> "scvMap", value |-> entries]
scvI128(n) == [type |-> "scvI128", value |-> n]
scvU64(n) == [type |-> "scvU64", value |-> n]
scvU128(n) == [type |-> "scvU128", value |-> n]
scvAddress(a) == [type |-> "scvAddress", value |-> a]

nativeToScVal_i128(n) == scvI128(n)

(***************************************************************************)
(* scValToNative: the JavaScript value of a decoded ScVal, tagged with its *)
(* JavaScript kind.  A void decodes to null, a vector to an array, a map   *)
(* to an object, bytes to a Buffer, the wide integers to a bigint.         *)
(***************************************************************************)
Null == [t |-> "null", v |-> None]
Undefined == [t |-> "undefined", v |-> None]

RECURSIVE scValToNative(_)
scValToNative(val) ==
  CASE val.type = "scvVoid" -> Null
    [] val.type = "scvVec" ->
         [t |-> "array", v |-> [i \in 1..Len(val.value) |-> scValToNative(val.value[i])]]
    [] val.type = "scvMap" ->
         [t |-> "object", v |-> [k \in DOMAIN val.value |-> scValToNative(val.value[k])]]
    [] val.type = "scvBytes" -> [t |-> "buffer", v |-> val.value]
    [] val.type \in {"scvSymbol", "scvString", "scvAddress"} -> [t |-> "string", v |-> val.value]
    [] val.type \in {"scvI128", "scvU64", "scvU128"} -> [t |-> "bigint", v |-> val.value]

(***************************************************************************)
(* `!result` (lines 72, 128): null, undefined, 0n and '' are falsy; every  *)
(* array, object and Buffer is truthy, an empty one included.              *)
(***************************************************************************)
Falsy(native) ==
  \/ native.t \in {"null", "undefined"}
  \/ native.t = "bigint" /\ native.v = 0
  \/ native.t = "string" /\ native.v = ""

\* result[i] for the zero-based index i: an array's element, else undefined.
Index(native, i) ==
  IF native.t = "array" /\ i + 1 \in DOMAIN native.v THEN native.v[i + 1] ELSE Undefined

\* obj.field: an object's own field, else undefined.
Field(native, name) ==
  IF native.t = "object" /\ name \in DOMAIN native.v THEN native.v[name] ELSE Undefined

\* x.toString(...) throws a TypeError on undefined and null.
CanToString(native) == native.t \notin {"undefined", "null"}

\* x.toString('hex') of a Buffer, x.toString() of a bigint; a string is itself.
ToStringOf(native) ==
  CASE native.t = "buffer" -> ToHex(native.v)
    [] native.t = "bigint" -> BigIntToString(native.v)
    [] OTHER -> native.v

(***************************************************************************)
(* Errors a call rejects with.  The message of the three classes of        *)
(* ./errors is set there, not in this file: it is left undefined here.     *)
(***************************************************************************)
NewError(message) == [class |-> "Error", message |-> Some(message)]
Domain404Error == [class |-> "Domain404Error", message |-> None]
DomainData404Error == [class |-> "DomainData404Error", message |-> None]
DomainDataUnsupportedValueType == [class |-> "DomainDataUnsupportedValueType", message |-> None]
TypeError == [class |-> "TypeError", message |-> None]

VaultsMessage == "Vault's contract id was not provided"
KeyValueMessage == "KeyValue Database contract id was not provided"

Rejected(error) == Some([state |-> "rejected", error |-> Some(error), value |-> None])
Resolved(value) == Some([state |-> "resolved", error |-> None, value |-> Some(value)])

(***************************************************************************)
(* The frame of one asynchronous call: its position, its arguments, its    *)
(* locals (operation: the contract.call(...) it built; account,            *)
(* transaction, sim), the RPC calls it issued and the library steps it     *)
(* took after the simulation, and what it settled to.                      *)
(***************************************************************************)
IdleFrame ==
  [pc |-> "idle", op |-> "", params |-> None, operation |-> None,
   account |-> None, transaction |-> None, sim |-> None,
   rpc |-> << >>, after |-> << >>, outcome |-> None]

RpcCall(method, arg) == [method |-> method, arg |-> Some(arg)]

\* A call that throws before its first await: the promise is rejected at once.
Throw(frame, op, params, error) ==
  [frame EXCEPT !.pc = "rejected", !.op = op, !.params = Some(params),
                !.outcome = Rejected(error)]

\* A call that reaches `await this.global.rpc.getAccount(accountId)`.
AwaitGetAccount(frame, op, params, operation, accountId) ==
  [frame EXCEPT !.pc = "getAccount", !.op = op, !.params = Some(params),
                !.operation = Some(operation),
                !.rpc = Append(@, RpcCall("getAccount", accountId))]

ContractCall(contractId, method, args) ==
  [contract |-> contractId, method |-> method, args |-> args]

(***************************************************************************)
(* searchDomain up to its first await, lines 36-54.                        *)
(***************************************************************************)
\* The key chosen by `subDomain !== undefined`, unlike the node.
RecordKeyOf_PresentSubDomain(subDomain) == IF IsSome(subDomain) THEN "SubRecord" ELSE "Record"

\* The two branches of the conditional exchanged.
RecordKeyOf_Inverted(subDomain) == IF TruthyString(subDomain) THEN "Record" ELSE "SubRecord"

\* params.subDomain ? RecordKey.SubRecord : RecordKey.Record
RecordKeyOf(subDomain) == IF TruthyString(subDomain) THEN "SubRecord" ELSE "Record"

SearchOperation(g, domain, subDomain) ==
  LET domainNode == parseDomain(domain, subDomain)
      nodeBytes == scvBytes(BufferFromHex(domainNode))
      record_key == scvVec(<<scvSymbol(RecordKeyOf(subDomain)), nodeBytes>>)
  IN  ContractCall(g.vaultsContractId[1], "record", <<record_key>>)

\* The configuration test left out: the call goes on to its first RPC call.
SearchStart_NoConfigCheck(frame, g, domain, subDomain) ==
  LET params == [domain |-> domain, subDomain |-> subDomain]
  IN  AwaitGetAccount(frame, "searchDomain", params,
                      ContractCall(IF IsSome(g.vaultsContractId) THEN g.vaultsContractId[1] ELSE "",
                                   "record", << >>),
                      g.simulationAccount)

SearchStart(frame, g, domain, subDomain) ==
  LET params == [domain |-> domain, subDomain |-> subDomain]
  IN  IF ~TruthyId(g.vaultsContractId)
      THEN Throw(frame, "searchDomain", params, NewError(VaultsMessage))
      ELSE AwaitGetAccount(frame, "searchDomain", params,
                           SearchOperation(g, domain, subDomain), g.simulationAccount)

searchDomain(c, domain, subDomain) ==
  /\ calls[c].pc = "idle"
  /\ calls' = [calls EXCEPT ![c] = SearchStart(calls[c], global, domain, subDomain)]
  /\ UNCHANGED <<global, parseArgs, parseResult>>

(***************************************************************************)
(* getDomainData up to its first await, lines 101-110.                     *)
(***************************************************************************)
GetStart(frame, g, node, key) ==
  LET params == [node |-> node, key |-> key]
  IN  IF ~TruthyId(g.valuesDatabaseContractId)
      THEN Throw(frame, "getDomainData", params, NewError(KeyValueMessage))
      ELSE LET nodeBytes == scvBytes(BufferFromHex(node))
               keySymbol == scvSymbol(key)
           IN  AwaitGetAccount(frame, "getDomainData", params,
                   ContractCall(g.valuesDatabaseContractId[1], "get", <<nodeBytes, keySymbol>>),
                   g.simulationAccount)

getDomainData(c, node, key) ==
  /\ calls[c].pc = "idle"
  /\ calls' = [calls EXCEPT ![c] = GetStart(calls[c], global, node, key)]
  /\ UNCHANGED <<global, parseArgs, parseResult>>

(***************************************************************************)
(* setDomainData up to its first await, lines 135-174.  EncodeValue is the *)
(* switch on params.value[0]: << >> stands for the default branch's throw. *)
(***************************************************************************)
\* The switch without its default branch.
EncodeValue_EncodesAnything(value) ==
  Some(scvVec(<<scvSymbol(value[1]), scvString(value[2])>>))

EncodeValue(value) ==
  CASE value[1] = "Bytes" -> Some(scvVec(<<scvSymbol("Bytes"), scvBytes(value[2])>>))
    [] value[1] = "Number" -> Some(scvVec(<<scvSymbol("Number"), nativeToScVal_i128(value[2])>>))
    [] value[1] = "String" -> Some(scvVec(<<scvSymbol("String"), scvString(value[2])>>))
    [] OTHER -> None

SetStart(frame, g, node, key, value, source) ==
  LET params == [node |-> node, key |-> key, value |-> value, source |-> source]
  IN  IF ~TruthyId(g.valuesDatabaseContractId)
      THEN Throw(frame, "setDomainData", params, NewError(KeyValueMessage))
      ELSE LET nodeBytes == scvBytes(BufferFromHex(node))
               keySymbol == scvSymbol(key)
               encoded == EncodeValue(value)
           IN  IF encoded = None
               THEN Throw(frame, "setDomainData", params, DomainDataUnsupportedValueType)
               ELSE AwaitGetAccount(frame, "setDomainData", params,
                        ContractCall(g.valuesDatabaseContractId[1], "set",
                                     <<nodeBytes, keySymbol, encoded[1]>>),
                        source)

setDomainData(c, node, key, value, source) ==
  /\ calls[c].pc = "idle"
  /\ calls' = [calls EXCEPT ![c] = SetStart(calls[c], global, node, key, value, source)]
  /\ UNCHANGED <<global, parseArgs, parseResult>>

(***************************************************************************)
(* removeDomainData up to its first await, lines 196-208.                  *)
(***************************************************************************)
RemoveStart(frame, g, node, key, source) ==
  LET params == [node |-> node, key |-> key, source |-> source]
  IN  IF ~TruthyId(g.valuesDatabaseContractId)
      THEN Throw(frame, "removeDomainData", params, NewError(KeyValueMessage))
      ELSE LET nodeBytes == scvBytes(BufferFromHex(node))
               keySymbol == scvSymbol(key)
           IN  AwaitGetAccount(frame, "removeDomainData", params,
                   ContractCall(g.valuesDatabaseContractId[1], "remove", <<nodeBytes, keySymbol>>),
                   source)

removeDomainData(c, node, key, source) ==
  /\ calls[c].pc = "idle"
  /\ calls' = [calls EXCEPT ![c] = RemoveStart(calls[c], global, node, key, source)]
  /\ UNCHANGED <<global, parseArgs, parseResult>>

(***************************************************************************)
(* The continuation after `await rpc.getAccount(...)`: the transaction is  *)
(* built from the account the await returned (TransactionBuilder takes     *)
(* the account's next sequence number) and handed to simulateTransaction.  *)
(* Lines 56-64, 112-120, 176-184, 210-218.                                 *)
(***************************************************************************)
\* this.global.defaultTimeout || 0
TimeoutOf(g) ==
  IF IsSome(g.defaultTimeout) /\ g.defaultTimeout[1] # 0 THEN g.defaultTimeout[1] ELSE 0

BuildTransaction(account, g, operation) ==
  [source |-> account.id, sequence |-> account.sequence + 1,
   networkPassphrase |-> g.network, fee |-> g.defaultFee,
   timeout |-> TimeoutOf(g), operations |-> <<operation>>, sorobanData |-> None]

\* The account kept in a slot shared by the calls in flight, not in a local.
AfterGetAccount_SharedAccount(frame, g, account) ==
  LET holders == {d \in DOMAIN calls : IsSome(calls[d].account)}
      shared == IF holders = {} THEN account
                ELSE calls[CHOOSE d \in holders : \A e \in holders : d <= e].account[1]
      transaction == BuildTransaction(shared, g, frame.operation[1])
  IN  [frame EXCEPT !.pc = "simulateTransaction", !.account = Some(account),
                    !.transaction = Some(transaction),
                    !.rpc = Append(@, RpcCall("simulateTransaction", transaction))]

AfterGetAccount(frame, g, account) ==
  LET transaction == BuildTransaction(account, g, frame.operation[1])
  IN  [frame EXCEPT !.pc = "simulateTransaction", !.account = Some(account),
                    !.transaction = Some(transaction),
                    !.rpc = Append(@, RpcCall("simulateTransaction", transaction))]

\* A rejected RPC call issued once more before giving up.
AfterRejection_Retries(frame, reason) ==
  [frame EXCEPT !.pc = "rejected", !.outcome = Rejected(reason),
                !.rpc = Append(@, frame.rpc[Len(frame.rpc)])]

\* An awaited RPC promise that rejects: the async function rejects with its reason.
AfterRejection(frame, reason) ==
  [frame EXCEPT !.pc = "rejected", !.outcome = Rejected(reason)]

GetAccountResolves(c, sequence) ==
  /\ calls[c].pc = "getAccount"
  /\ LET account == [id |-> calls[c].rpc[1].arg[1], sequence |-> sequence]
     IN  calls' = [calls EXCEPT ![c] = AfterGetAccount(calls[c], global, account)]
  /\ UNCHANGED <<global, parseArgs, parseResult>>

GetAccountRejects(c, reason) ==
  /\ calls[c].pc = "getAccount"
  /\ calls' = [calls EXCEPT ![c] = AfterRejection(calls[c], reason)]
  /\ UNCHANGED <<global, parseArgs, parseResult>>

(***************************************************************************)
(* The continuation after `await rpc.simulateTransaction(transaction)`.    *)
(***************************************************************************)
\* SorobanRpc.Api.isSimulationError(sim): the response carries an `error`.
isSimulationError(sim) == IsSome(sim.error)

\* SorobanRpc.assembleTransaction(transaction, sim).build()
assembleTransaction(transaction, sim) ==
  [transaction EXCEPT !.fee = @ + sim.minResourceFee, !.sorobanData = sim.transactionData]

Step(name, arg) == [step |-> name, arg |-> Some(arg)]

\* Lines 76-98: the record of a truthy decoded result.
DomainFields == {"node", "owner", "exp_date", "snapshot", "collateral"}
SubDomainFields == {"node", "parent", "snapshot"}

\* The tag of the decoded response never looked at.
RecordOf_AlwaysSubDomain(result) ==
  LET entry == Index(result, 1)
  IN  IF \A f \in SubDomainFields : CanToString(Field(entry, f))
      THEN Resolved([type |-> "SubDomain",
                     value |-> [node |-> ToStringOf(Field(entry, "node")),
                                parent |-> ToStringOf(Field(entry, "parent")),
                                address |-> Field(entry, "address"),
                                snapshot |-> ToStringOf(Field(entry, "snapshot"))]])
      ELSE Rejected(TypeError)

RecordOf(result) ==
  LET entry == Index(result, 1)
  IN  IF Index(result, 0) = [t |-> "string", v |-> "Domain"]
      THEN IF \A f \in DomainFields : CanToString(Field(entry, f))
           THEN Resolved([type |-> "Domain",
                          value |-> [node |-> ToStringOf(Field(entry, "node")),
                                     owner |-> ToStringOf(Field(entry, "owner")),
                                     address |-> Field(entry, "address"),
                                     exp_date |-> ToStringOf(Field(entry, "exp_date")),
                                     snapshot |-> ToStringOf(Field(entry, "snapshot")),
                                     collateral |-> ToStringOf(Field(entry, "collateral"))]])
           ELSE Rejected(TypeError)
      ELSE IF \A f \in SubDomainFields : CanToString(Field(entry, f))
           THEN Resolved([type |-> "SubDomain",
                          value |-> [node |-> ToStringOf(Field(entry, "node")),
                                     parent |-> ToStringOf(Field(entry, "parent")),
                                     address |-> Field(entry, "address"),
                                     snapshot |-> ToStringOf(Field(entry, "snapshot"))]])
           ELSE Rejected(TypeError)

\* Lines 70-98.
SearchDecode(frame, sim) ==
  LET result == scValToNative(sim.retval[1])
  IN  [frame EXCEPT !.after = Append(@, Step("scValToNative", sim.retval[1])),
                    !.outcome = IF Falsy(result) THEN Rejected(Domain404Error)
                                ELSE RecordOf(result)]

\* The test of an absent value left out.
GetDecode_NoNotFound(frame, sim) ==
  LET result == scValToNative(sim.retval[1])
  IN  [frame EXCEPT !.after = Append(@, Step("scValToNative", sim.retval[1])),
                    !.outcome = Resolved(result)]

\* Lines 126-132.
GetDecode(frame, sim) ==
  LET result == scValToNative(sim.retval[1])
  IN  [frame EXCEPT !.after = Append(@, Step("scValToNative", sim.retval[1])),
                    !.outcome = IF Falsy(result) THEN Rejected(DomainData404Error)
                                ELSE Resolved(result)]

\* Lines 190-193 and 224-227.
Assemble(frame, sim) ==
  [frame EXCEPT !.after = Append(@, Step("assembleTransaction", <<frame.transaction[1], sim>>)),
                !.outcome = Resolved([tx |-> assembleTransaction(frame.transaction[1], sim),
                                      sim |-> sim])]

\* The simulation's message replaced by a message of the SDK's own.
AfterSimulate_GenericMessage(frame, sim) ==
  LET received == [frame EXCEPT !.sim = Some(sim)]
  IN  IF isSimulationError(sim)
      THEN [received EXCEPT !.pc = "rejected",
                            !.outcome = Rejected(NewError("Simulation failed"))]
      ELSE LET done == CASE frame.op = "searchDomain" -> SearchDecode(received, sim)
                         [] frame.op = "getDomainData" -> GetDecode(received, sim)
                         [] OTHER -> Assemble(received, sim)
           IN  [done EXCEPT !.pc = done.outcome[1].state]

AfterSimulate(frame, sim) ==
  LET received == [frame EXCEPT !.sim = Some(sim)]
  IN  IF isSimulationError(sim)
      THEN [received EXCEPT !.pc = "rejected", !.outcome = Rejected(NewError(sim.error[1]))]
      ELSE LET done == CASE frame.op = "searchDomain" -> SearchDecode(received, sim)
                         [] frame.op = "getDomainData" -> GetDecode(received, sim)
                         [] OTHER -> Assemble(received, sim)
           IN  [done EXCEPT !.pc = done.outcome[1].state]

SimulateResolves(c, sim) ==
  /\ calls[c].pc = "simulateTransaction"
  /\ calls' = [calls EXCEPT ![c] = AfterSimulate(calls[c], sim)]
  /\ UNCHANGED <<global, parseArgs, parseResult>>

SimulateRejects(c, reason) ==
  /\ calls[c].pc = "simulateTransaction"
  /\ calls' = [calls EXCEPT ![c] = AfterRejection(calls[c], reason)]
  /\ UNCHANGED <<global, parseArgs, parseResult>>

\* The caller takes the settled promise; the slot is free for its next call.
Settle(c) ==
  /\ calls[c].pc \in {"resolved", "rejected"}
  /\ calls' = [calls EXCEPT ![c] = IdleFrame]
  /\ UNCHANGED <<global, parseArgs, parseResult>>

\* A static call SorobanDomainsSDK.parseDomain(parseArgs).
ParseDomainCall ==
  /\ IsSome(parseArgs) /\ parseResult = None
  /\ parseResult' = Some(parseDomain(parseArgs[1].domain, parseArgs[1].subDomain))
  /\ UNCHANGED <<global, calls, parseArgs>>

(***************************************************************************)
(* The inputs: what callers pass and what the RPC server answers.          *)
(***************************************************************************)
SubDomains(n) == {None} \cup {Some(s) : s \in Strings(n)}

Configs ==
  [vaultsContractId : {None, Some(""), Some("CVAULTS")},
   valuesDatabaseContractId : {None, Some(""), Some("CVALUES")},
   simulationAccount : {"GSIM"}, network : {"Test SDF Network"},
   defaultFee : {100}, defaultTimeout : {None, Some(30)}]

FullConfig ==
  [vaultsContractId |-> Some("CVAULTS"), valuesDatabaseContractId |-> Some("CVALUES"),
   simulationAccount |-> "GSIM", network |-> "Test SDF Network",
   defaultFee |-> 100, defaultTimeout |-> None]

\* params.node: the hex of a digest, an odd-length text, a text that is not hex.
Nodes == {ToHex(Keccak256(<<97>>)), <<48, 49, 102>>, <<122, 122>>}
Keys == {"website"}
Sources == {"GOWNER"}
StorageValues ==
  {<<"Bytes", <<1, 255>>>>, <<"Number", 42>>, <<"String", "hello">>,
   <<"Other", "x">>, <<"bytes", <<1>>>>}

DomainEntry ==
  scvMap([node |-> scvBytes(<<10, 11>>), owner |-> scvBytes(<<12, 13>>),
          address |-> scvAddress("GADDR"), exp_date |-> scvU64(1700),
          snapshot |-> scvU64(12), collateral |-> scvU128(0)])
SubDomainEntry ==
  scvMap([node |-> scvBytes(<<14, 15>>), parent |-> scvBytes(<<10, 11>>),
          address |-> scvAddress("GADDR"), snapshot |-> scvU64(0)])

\* What the contracts return: nothing (void), a tagged record, a tagged value.
RecordRetVals ==
  {scvVec(<<scvSymbol(tag), entry>>) :
     tag \in {"Domain", "SubDomain", "Other"}, entry \in {DomainEntry, SubDomainEntry}}
ValueRetVals ==
  {scvVec(<<scvSymbol("Bytes"), scvBytes(<<1, 255>>)>>),
   scvVec(<<scvSymbol("Number"), scvI128(42)>>),
   scvVec(<<scvSymbol("String"), scvString("hello")>>)}
RetVals == {scvVoid} \cup RecordRetVals \cup ValueRetVals

SimError(message) ==
  [error |-> Some(message), retval |-> None, transactionData |-> None,
   minResourceFee |-> 0, restorePreamble |-> None]
SimSuccess(retval, restore) ==
  [error |-> None, retval |-> Some(retval), transactionData |-> Some("footprint"),
   minResourceFee |-> 55, restorePreamble |-> restore]

SimResponses ==
  {SimError(m) : m \in {"HostError: Error(Contract, #1)", ""}}
    \cup {SimSuccess(r, None) : r \in RetVals}
    \cup {SimSuccess(scvVoid, Some("restore-footprint"))}

RpcFailures == {[class |-> "RpcError", message |-> Some("request failed")]}

(***************************************************************************)
(* Spec: one call at a time, the widest inputs.                            *)
(***************************************************************************)
Init ==
  /\ global \in Configs
  /\ calls = [c \in {1} |-> IdleFrame]
  /\ parseArgs = None
  /\ parseResult = None

Next ==
  \/ \E c \in DOMAIN calls, d \in Strings(MaxLen), s \in SubDomains(MaxLen) :
       searchDomain(c, d, s)
  \/ \E c \in DOMAIN calls, n \in Nodes, k \in Keys : getDomainData(c, n, k)
  \/ \E c \in DOMAIN calls, n \in Nodes, k \in Keys, v \in StorageValues, a \in Sources :
       setDomainData(c, n, k, v, a)
  \/ \E c \in DOMAIN calls, n \in Nodes, k \in Keys, a \in Sources :
       removeDomainData(c, n, k, a)
  \/ \E c \in DOMAIN calls, q \in 0..MaxSeq : GetAccountResolves(c, q)
  \/ \E c \in DOMAIN calls, e \in RpcFailures : GetAccountRejects(c, e)
  \/ \E c \in DOMAIN calls, r \in SimResponses : SimulateResolves(c, r)
  \/ \E c \in DOMAIN calls, e \in RpcFailures : SimulateRejects(c, e)
  \/ \E c \in DOMAIN calls : Settle(c)

Spec == Init /\ [][Next]_vars

(***************************************************************************)
(* SpecParse: the static parseDomain on every pair of arguments.           *)
(***************************************************************************)
InitParse ==
  /\ global = FullConfig
  /\ calls = [c \in {1} |-> IdleFrame]
  /\ parseArgs \in {Some([domain |-> d, subDomain |-> s]) :
                      d \in Strings(MaxLen), s \in SubDomains(MaxLen)}
  /\ parseResult = None

NextParse == ParseDomainCall

SpecParse == InitParse /\ [][NextParse]_vars

(***************************************************************************)
(* SpecConc: MaxCalls calls in flight on one fully configured instance,    *)
(* interleaved at their await points, over a few inputs each.              *)
(***************************************************************************)
ConcSimResponses ==
  {SimError("HostError: Error(Contract, #1)"), SimSuccess(scvVoid, None),
   SimSuccess(scvVec(<<scvSymbol("Domain"), DomainEntry>>), None)}

InitConc ==
  /\ global = FullConfig
  /\ calls = [c \in 1..MaxCalls |-> IdleFrame]
  /\ parseArgs = None
  /\ parseResult = None

NextConc ==
  \/ \E c \in DOMAIN calls, s \in {None, Some(<<98>>)} : searchDomain(c, <<97>>, s)
  \/ \E c \in DOMAIN calls : getDomainData(c, <<48, 49>>, "website")
  \/ \E c \in DOMAIN calls, v \in {<<"Number", 42>>, <<"Other", "x">>} :
       setDomainData(c, <<48, 49>>, "website", v, "GOWNER")
  \/ \E c \in DOMAIN calls : removeDomainData(c, <<48, 49>>, "website", "GOWNER")
  \/ \E c \in DOMAIN calls, q \in 0..MaxSeq : GetAccountResolves(c, q)
  \/ \E c \in DOMAIN calls, e \in RpcFailures : GetAccountRejects(c, e)
  \/ \E c \in DOMAIN calls, r \in ConcSimResponses : SimulateResolves(c, r)
  \/ \E c \in DOMAIN calls, e \in RpcFailures : SimulateRejects(c, e)
  \/ \E c \in DOMAIN calls : Settle(c)

SpecConc == InitConc /\ [][NextConc]_vars

(***************************************************************************)
(* Properties.                                                             *)
(***************************************************************************)
Started == {c \in DOMAIN calls : calls[c].op # ""}
RejectedWith(f, error) == f.pc = "rejected" /\ f.outcome = Rejected(error)
StorageOps == {"getDomainData", "setDomainData", "removeDomainData"}
SimSucceeded(f) == IsSome(f.sim) /\ ~isSimulationError(f.sim[1])

\* The digests of the specification, section 4.1, as hashes of concatenated digests.
RootDigest(domain) == Keccak256(Keccak256(Xlm) \o Keccak256(domain))
SubDigest(domain, sub) == Keccak256(Keccak256(RootDigest(domain)) \o Keccak256(sub))

\* C1: a call whose contract identifier is absent from the configuration
\* (vaultsContractId for searchDomain, valuesDatabaseContractId for the three
\* storage operations) is rejected with the configuration error and has issued
\* no RPC call, whatever its other arguments.
C1_ConfigurationMissing ==
  \A c \in Started :
    LET f == calls[c] IN
      /\ (f.op = "searchDomain" /\ global.vaultsContractId = None)
           => RejectedWith(f, NewError(VaultsMessage)) /\ f.rpc = << >>
      /\ (f.op \in StorageOps /\ global.valuesDatabaseContractId = None)
           => RejectedWith(f, NewError(KeyValueMessage)) /\ f.rpc = << >>

C1_Witness ==
  \E c \in Started :
    /\ calls[c].op = "setDomainData" /\ global.valuesDatabaseContractId = None
    /\ calls[c].params[1].value[1] = "Other"
    /\ calls[c].pc = "rejected" /\ calls[c].rpc = << >>

C2_Tag(f) == f.sim[1].retval[1].value[1].value
C2_Entry(f) == f.sim[1].retval[1].value[2].value
C2_Tagged(f) ==
  /\ f.op = "searchDomain" /\ SimSucceeded(f)
  /\ f.sim[1].retval[1].type = "scvVec"
  /\ f.sim[1].retval[1].value[2].type = "scvMap"

\* C2: after a successful simulation whose decoded response is a tagged entry,
\* a settled searchDomain that resolved gave the Domain variant if and only if
\* the tag is 'Domain'; with the tag 'Domain' and an entry of the six Domain
\* fields it resolves to a Domain record of exactly those six fields, with any
\* other tag and an entry of the four SubDomain fields to a SubDomain record of
\* exactly those four, bytes rendered in hex and integers in decimal.
C2_RecordVariant ==
  \A c \in Started :
    LET f == calls[c] IN
      C2_Tagged(f) =>
        /\ f.pc = "resolved" => (f.outcome[1].value[1].type = "Domain" <=> C2_Tag(f) = "Domain")
        /\ (C2_Tag(f) = "Domain" /\ DomainFields \subseteq DOMAIN C2_Entry(f)) =>
             /\ f.pc = "resolved" /\ f.outcome[1].value[1].type = "Domain"
             /\ DOMAIN f.outcome[1].value[1].value =
                  {"node", "owner", "address", "exp_date", "snapshot", "collateral"}
             /\ f.outcome[1].value[1].value.owner = ToHex(C2_Entry(f).owner.value)
             /\ f.outcome[1].value[1].value.exp_date = <<49, 55, 48, 48>>
        /\ (C2_Tag(f) # "Domain" /\ SubDomainFields \subseteq DOMAIN C2_Entry(f)) =>
             /\ f.pc = "resolved" /\ f.outcome[1].value[1].type = "SubDomain"
             /\ DOMAIN f.outcome[1].value[1].value = {"node", "parent", "address", "snapshot"}
             /\ f.outcome[1].value[1].value.parent = ToHex(C2_Entry(f).parent.value)

C2_Witness ==
  \E c \in Started :
    /\ C2_Tagged(calls[c]) /\ C2_Tag(calls[c]) = "Other"
    /\ calls[c].pc = "resolved" /\ calls[c].outcome[1].value[1].type = "SubDomain"

\* C3: after a successful simulation that returned nothing (a void, decoded to
\* null) searchDomain is rejected with Domain404Error and getDomainData with
\* DomainData404Error; after one that returned a value, getDomainData resolves
\* to the decoded value as it is.
C3_NotFound ==
  \A c \in Started :
    LET f == calls[c] IN
      SimSucceeded(f) =>
        /\ (f.op = "searchDomain" /\ f.sim[1].retval[1] = scvVoid)
             => RejectedWith(f, Domain404Error)
        /\ (f.op = "getDomainData" /\ f.sim[1].retval[1] = scvVoid)
             => RejectedWith(f, DomainData404Error)
        /\ (f.op = "getDomainData" /\ f.sim[1].retval[1] # scvVoid)
             => /\ f.pc = "resolved"
                /\ f.outcome[1].value[1].t = "array"
                /\ Len(f.outcome[1].value[1].v) = Len(f.sim[1].retval[1].value)
                /\ \A i \in 1..Len(f.sim[1].retval[1].value) :
                     f.outcome[1].value[1].v[i] = scValToNative(f.sim[1].retval[1].value[i])

C3_Witness ==
  \E c \in Started :
    /\ calls[c].op = "getDomainData" /\ SimSucceeded(calls[c])
    /\ calls[c].sim[1].retval[1] = scvVoid
    /\ RejectedWith(calls[c], DomainData404Error)

SupportedDiscriminants == {"Bytes", "Number", "String"}

\* C4: with the key/value contract configured, setDomainData of a value whose
\* discriminant is none of Bytes, Number, String is rejected with
\* DomainDataUnsupportedValueType having issued no RPC call; for each of the
\* three the value sent is the vector [symbol of the discriminant, payload].
C4_ValueEncoding ==
  \A c \in Started :
    LET f == calls[c] IN
      (f.op = "setDomainData" /\ TruthyId(global.valuesDatabaseContractId)) =>
        LET value == f.params[1].value IN
          IF value[1] \in SupportedDiscriminants
          THEN /\ IsSome(f.operation)
               /\ LET encoded == f.operation[1].args[3] IN
                    /\ encoded.type = "scvVec" /\ Len(encoded.value) = 2
                    /\ encoded.value[1] = scvSymbol(value[1])
                    /\ encoded.value[2].value = value[2]
                    /\ encoded.value[2].type =
                         (CASE value[1] = "Bytes" -> "scvBytes"
                            [] value[1] = "Number" -> "scvI128"
                            [] value[1] = "String" -> "scvString")
          ELSE RejectedWith(f, DomainDataUnsupportedValueType) /\ f.rpc = << >>

C4_Witness ==
  \E c \in Started :
    /\ calls[c].op = "setDomainData" /\ TruthyId(global.valuesDatabaseContractId)
    /\ calls[c].params[1].value[1] = "bytes"
    /\ RejectedWith(calls[c], DomainDataUnsupportedValueType) /\ calls[c].rpc = << >>

\* C5: a call whose simulation answered with a simulation error is rejected
\* with an Error carrying that message as it is and takes no step after the
\* simulation; setDomainData and removeDomainData assemble only after a
\* successful simulation, once, and resolve to the transaction assembled from
\* their own transaction and that simulation, together with that simulation.
C5_SimulationError ==
  \A c \in Started :
    LET f == calls[c] IN
      /\ (IsSome(f.sim) /\ isSimulationError(f.sim[1])) =>
           /\ f.pc = "rejected"
           /\ f.outcome[1].error[1].class = "Error"
           /\ f.outcome[1].error[1].message = f.sim[1].error
           /\ f.after = << >>
      /\ f.after # << >> => SimSucceeded(f)
      /\ (f.op \in {"setDomainData", "removeDomainData"} /\ SimSucceeded(f)) =>
           /\ f.pc = "resolved"
           /\ Len(f.after) = 1 /\ f.after[1].step = "assembleTransaction"
           /\ f.outcome[1].value[1].sim = f.sim[1]
           /\ f.outcome[1].value[1].tx.sorobanData = f.sim[1].transactionData
           /\ f.outcome[1].value[1].tx.fee = f.transaction[1].fee + f.sim[1].minResourceFee
           /\ f.outcome[1].value[1].tx.operations = f.transaction[1].operations
           /\ f.outcome[1].value[1].tx.sequence = f.transaction[1].sequence

C5_Witness ==
  \E c \in Started :
    /\ calls[c].op = "removeDomainData" /\ IsSome(calls[c].sim)
    /\ calls[c].sim[1].error = Some("HostError: Error(Contract, #1)")
    /\ calls[c].pc = "rejected" /\ calls[c].after = << >>

\* C6 as stated: parseDomain without a sub-domain returns the hex of
\* rootDigest = H(H('xlm') then H(domain)), and with every sub-domain string
\* that is given, the empty string included, the hex of
\* H(H(rootDigest) then H(subDomain)).
C6_AsStated ==
  IsSome(parseResult) =>
    LET domain == parseArgs[1].domain
        sub == parseArgs[1].subDomain
    IN  parseResult[1] = IF IsSome(sub) THEN ToHex(SubDigest(domain, sub[1]))
                         ELSE ToHex(RootDigest(domain))

\* C6, amended: parseDomain returns the hex of H(H(rootDigest) then
\* H(subDomain)) for every non-empty sub-domain string, and the hex of
\* rootDigest when the sub-domain is absent or the empty string; the result is
\* this function of the two arguments and of nothing else.
C6_ParseDomain ==
  IsSome(parseResult) =>
    LET domain == parseArgs[1].domain
        sub == parseArgs[1].subDomain
    IN  parseResult[1] = IF IsSome(sub) /\ sub[1] # << >>
                         THEN ToHex(SubDigest(domain, sub[1]))
                         ELSE ToHex(RootDigest(domain))

C6_Witness ==
  /\ IsSome(parseResult)
  /\ parseArgs[1].domain = << >>
  /\ parseArgs[1].subDomain = Some(<< >>)
  /\ parseResult[1] = ToHex(RootDigest(<< >>))
  /\ parseResult[1] # ToHex(SubDigest(<< >>, << >>))

RpcMethods(f) == [i \in 1..Len(f.rpc) |-> f.rpc[i].method]

\* C7: a call issues getAccount at most once and simulateTransaction at most
\* once, the latter only with the account its own getAccount returned and no
\* other RPC method ever; it waits exactly for the call it issued last, and a
\* rejected RPC call rejects the operation with that reason, nothing reissued.
C7_RpcDiscipline ==
  \A c \in Started :
    LET f == calls[c] IN
      /\ RpcMethods(f) \in {<< >>, <<"getAccount">>, <<"getAccount", "simulateTransaction">>}
      /\ Len(f.rpc) = 2 =>
           /\ IsSome(f.account) /\ IsSome(f.transaction)
           /\ f.rpc[2].arg = f.transaction
           /\ f.transaction[1].source = f.rpc[1].arg[1]
      /\ f.pc = "getAccount" <=> (Len(f.rpc) = 1 /\ f.outcome = None)
      /\ f.pc = "simulateTransaction" <=> (Len(f.rpc) = 2 /\ f.sim = None /\ f.outcome = None)
      /\ (f.pc = "rejected" /\ f.outcome[1].error[1] \in RpcFailures) =>
           /\ Len(f.rpc) \in {1, 2}
           /\ Len(f.rpc) = 1 <=> f.account = None
           /\ f.sim = None /\ f.after = << >>
      /\ IsSome(f.sim) => Len(f.rpc) = 2

C7_Witness ==
  \E c \in Started :
    /\ calls[c].pc = "rejected" /\ calls[c].outcome[1].error[1] \in RpcFailures
    /\ RpcMethods(calls[c]) = <<"getAccount", "simulateTransaction">>

C9_SentVector(f) == f.operation[1].args[1]
C9_Sent(f) == f.op = "searchDomain" /\ IsSome(f.operation)
C9_Shape(f) ==
  /\ f.operation[1].method = "record" /\ Len(f.operation[1].args) = 1
  /\ C9_SentVector(f).type = "scvVec" /\ Len(C9_SentVector(f).value) = 2
  /\ C9_SentVector(f).value[1].type = "scvSymbol"
  /\ C9_SentVector(f).value[2].type = "scvBytes"
  /\ ToHex(C9_SentVector(f).value[2].value) =
       parseDomain(f.params[1].domain, f.params[1].subDomain)

\* C9 as stated: searchDomain calls 'record' with the vector
\* [key, node-bytes], the key being SubRecord when a sub-domain argument is
\* present and Record when it is absent, node-bytes the bytes of
\* parseDomain(domain, subDomain).
C9_AsStated ==
  \A c \in Started :
    LET f == calls[c] IN
      C9_Sent(f) =>
        /\ C9_Shape(f)
        /\ C9_SentVector(f).value[1].value =
             IF IsSome(f.params[1].subDomain) THEN "SubRecord" ELSE "Record"

\* C9, amended: the key is SubRecord when a non-empty sub-domain is given and
\* Record when the sub-domain is absent or the empty string; the rest as stated.
C9_RecordCall ==
  \A c \in Started :
    LET f == calls[c] IN
      C9_Sent(f) =>
        /\ C9_Shape(f)
        /\ C9_SentVector(f).value[1].value =
             IF IsSome(f.params[1].subDomain) /\ f.params[1].subDomain[1] # << >>
             THEN "SubRecord" ELSE "Record"

C9_Witness ==
  \E c \in Started :
    /\ C9_Sent(calls[c]) /\ calls[c].params[1].subDomain = Some(<< >>)
    /\ C9_SentVector(calls[c]).value[1].value = "Record"
    /\ calls[c].operation[1].method = "record"

\* C10: for every domain and every sub-domain, absent and empty included, the
\* key sent is SubRecord exactly when the node sent is the digest made with
\* the sub-domain step, and Record exactly when it is the domain's root digest.
C10_KeyAgreesWithNode ==
  \A c \in Started :
    LET f == calls[c] IN
      C9_Sent(f) =>
        LET key == C9_SentVector(f).value[1].value
            node == C9_SentVector(f).value[2].value
            domain == f.params[1].domain
            sub == f.params[1].subDomain
        IN  /\ key \in {"Record", "SubRecord"}
            /\ key = "SubRecord" <=> (IsSome(sub) /\ node = SubDigest(domain, sub[1]))
            /\ key = "Record" <=> node = RootDigest(domain)

C10_Witness ==
  \E c \in Started :
    /\ C9_Sent(calls[c]) /\ calls[c].params[1].domain = <<97, 98>>
    /\ calls[c].params[1].subDomain = Some(<< >>)
    /\ C9_SentVector(calls[c]).value = <<scvSymbol("Record"), scvBytes(RootDigest(<<97, 98>>))>>

\* The frame a call comes to when it runs alone on a fresh instance of the
\* same configuration: started from an idle frame with its arguments, then
\* given the answers that frame f received from the RPC server.
AloneStart(f) ==
  CASE f.op = "searchDomain" ->
         SearchStart(IdleFrame, FullConfig, f.params[1].domain, f.params[1].subDomain)
    [] f.op = "getDomainData" ->
         GetStart(IdleFrame, FullConfig, f.params[1].node, f.params[1].key)
    [] f.op = "setDomainData" ->
         SetStart(IdleFrame, FullConfig, f.params[1].node, f.params[1].key,
                  f.params[1].value, f.params[1].source)
    [] f.op = "removeDomainData" ->
         RemoveStart(IdleFrame, FullConfig, f.params[1].node, f.params[1].key,
                     f.params[1].source)

AloneAccount(f) ==
  LET start == AloneStart(f) IN
    IF start.pc # "getAccount" THEN start
    ELSE IF IsSome(f.account)
         THEN [start EXCEPT
                 !.pc = "simulateTransaction", !.account = f.account,
                 !.transaction = Some(BuildTransaction(f.account[1], FullConfig,
                                                       start.operation[1])),
                 !.rpc = Append(@, RpcCall("simulateTransaction",
                                           BuildTransaction(f.account[1], FullConfig,
                                                            start.operation[1])))]
         ELSE IF f.pc = "rejected" THEN AfterRejection(start, f.outcome[1].error[1])
         ELSE start

RunAlone(f) ==
  LET got == AloneAccount(f) IN
    IF got.pc # "simulateTransaction" THEN got
    ELSE IF IsSome(f.sim) THEN AfterSimulate(got, f.sim[1])
         ELSE IF f.pc = "rejected" THEN AfterRejection(got, f.outcome[1].error[1])
         ELSE got

\* C8: whatever the interleaving of the calls in flight, the configuration of
\* the instance stays the one it was constructed with, every transaction is
\* built from the account that the call's own getAccount returned (its
\* identifier, its next sequence number), and every call stands, at each
\* point, where it would stand had it run alone with the same RPC answers.
C8_Isolation ==
  /\ global = FullConfig
  /\ \A c \in Started :
       LET f == calls[c] IN
         /\ IsSome(f.transaction) =>
              /\ IsSome(f.account)
              /\ f.account[1].id = f.rpc[1].arg[1]
              /\ f.transaction[1].source = f.account[1].id
              /\ f.transaction[1].sequence = f.account[1].sequence + 1
         /\ f = RunAlone(f)

C8_Witness ==
  /\ Cardinality(Started) >= 2
  /\ \E c, d \in Started :
       /\ c # d
       /\ calls[c].op = "setDomainData" /\ calls[d].op = "removeDomainData"
       /\ calls[c].pc = "resolved" /\ calls[d].pc = "resolved"
       /\ calls[c].account[1].sequence # calls[d].account[1].sequence
       /\ calls[c].outcome[1].value[1].tx.sequence # calls[d].outcome[1].value[1].tx.sequence

====
